---- MODULE Spec2Model ----
(***************************************************************************)
(* Maker-checker approval workflow of private_gpt/users/api/v1/routers/    *)
(* documents.py: upload, verify (approve / reject), enable / disable.      *)
(*                                                                         *)
(* The request handlers are coroutines of one event loop: the code between *)
(* two awaits runs without interleaving.  verify_documents is modelled in  *)
(* its sequential positions                                                *)
(*    idle -> updated (record committed) -> ingesting (awaiting the        *)
(*    ingestion routine) -> idle                                           *)
(* and the process may crash at any position; the metadata store, the      *)
(* quarantine directory and the vector index survive a crash.              *)
(*                                                                         *)
(* Two further specifications model ingest.py: SpecBatch is the batch run  *)
(* (main, process_documents, load_documents, does_vectorstore_exist) next  *)
(* to the approval workflow's appends to the same persisted index, and     *)
(* SpecElm is MyElmLoader.load.  Each specification leaves the variables   *)
(* of the other two at their initial values.                               *)
(***************************************************************************)
EXTENDS Integers, Sequences, FiniteSets, TLC

\* ------------------------------------------------------------------ bounds
MaxDocs == 2
MaxClock == 2

Users == {"u1", "u2"}
Handlers == {1, 2}
Filenames == {"report.csv", "scan.pdf"}
FirstUser == "u1"
FirstFilename == "report.csv"
Departments == {"dept"}

\* ------------------------------------------------------- program constants
PENDING == "PENDING"
APPROVED == "APPROVED"
REJECTED == "REJECTED"
MakerCheckerStatus == {PENDING, APPROVED, REJECTED}

ScannedDocType == 2
HybridDocType == 3
DocTypes == {1, ScannedDocType, HybridDocType}

NoFile == 0
NoUser == "nobody"

VARIABLES
    docs,      \* the documents table: a sequence of DocumentRecords, id = index
    files,     \* UNCHECKED_DIR: filename -> bytes staged there (NoFile: absent)
    index,     \* the vector index: a sequence of VectorRecords, id = position
    clock,     \* datetime.now(), advanced by each committed verification
    req,       \* per coroutine: the verify request it is serving, and where it is
    out,       \* the last response sent ("none": none, or lost in a crash)
    assoc,     \* document_department_association rows added by update_department
    source_directory,   \* ingest.py: the files of SOURCE_DIRECTORY
    malformed,          \* ingest.py: the files whose loader raises
    persist_directory,  \* ingest.py: PERSIST_DIRECTORY, the persisted vectorstore
    batch,              \* ingest.py: the batch process, its position and locals
    appends,            \* approvals that appended to the persisted vectorstore
    elm,                \* MyElmLoader.load: the call in progress
    surfaced            \* MyElmLoader.load: what the calls so far returned or raised

approvalVars == <<docs, files, index, clock, req, out, assoc>>
batchVars == <<source_directory, malformed, persist_directory, batch, appends>>
elmVars == <<elm, surfaced>>

DocIds == 1..Len(docs)

IdleReq ==
    [pc |-> "idle", user |-> NoUser, id |-> 0, target |-> PENDING,
     enabled |-> FALSE, stamp |-> 0, called |-> "none", content |-> NoFile]

\* A request is served by the first free coroutine (they are interchangeable).
Free(h) ==
    /\ req[h].pc = "idle"
    /\ \A g \in Handlers : g < h => req[g].pc # "idle"

\* (variant) an await between the record update and the file effect would let
\* the event loop run another handler there.
LoopFreeWithAwait == TRUE

\* No coroutine is between its record update and its file effect: the event
\* loop is free to start or resume another handler.
LoopFree == \A h \in Handlers : req[h].pc # "updated"

\* --------------------------------------------------- ingest.py: bounds, data
MaxRuns == 2
MaxArtifacts == 4
MaxAppends == 1
MaxLoads == 2

\* File paths are sequences of characters, so that glob patterns and rsplit
\* can be computed on them.
DocFile == <<"a", ".", "d", "o", "c">>
DocxFile == <<"b", ".", "d", "o", "c", "x">>
OtherFile == <<"d", ".", "x", "y", "z">>
SourceFiles == {DocFile, DocxFile, OtherFile}
\* The path under which an approved upload is ingested.
UploadedFile == <<"u", ".", "p", "d", "f">>

\* The keys of LOADER_MAPPING, in the order of the dictionary.
LOADER_MAPPING ==
    << <<".", "c", "s", "v">>, <<".", "d", "o", "c">>, <<".", "d", "o", "c", "x">>,
       <<".", "e", "n", "e", "x">>, <<".", "e", "m", "l">>, <<".", "e", "p", "u", "b">>,
       <<".", "h", "t", "m", "l">>, <<".", "m", "d">>, <<".", "o", "d", "t">>,
       <<".", "p", "d", "f">>, <<".", "p", "p", "t">>, <<".", "p", "p", "t", "x">>,
       <<".", "t", "x", "t">> >>

\* if len(list_index_files) > 3
IndexFilesThreshold == 3

\* The batch process before its first run.
IdleBatch ==
    [pc |-> "idle", run |-> 0, path |-> "none", db |-> << >>, ignored |-> {},
     filtered |-> << >>, pending |-> {}, results |-> << >>, texts |-> << >>]

\* A persist directory never written to.
EmptyDirectory ==
    [index |-> FALSE, collections |-> FALSE, embeddings |-> FALSE,
     artifacts |-> 0, records |-> << >>]

\* The persist directories a first run can find: nothing, the remains of an
\* interrupted write, or an empty store.
FoundDirectories ==
    {d \in [index : BOOLEAN, collections : BOOLEAN, embeddings : BOOLEAN,
            artifacts : 0..MaxArtifacts, records : {<< >>}] :
        ~d.index => d.artifacts = 0}

BatchAtRest ==
    /\ source_directory = {}
    /\ malformed = {}
    /\ persist_directory = EmptyDirectory
    /\ batch = IdleBatch
    /\ appends = 0

\* ------------------------------------------------ MyElmLoader.load: data
EmlFiles == {"a.eml", "b.eml"}
NoException == [class |-> "none", value_error |-> FALSE, html_not_found |-> FALSE,
                one_arg |-> TRUE]
\* What UnstructuredEmailLoader.load can raise: the class, whether it is a
\* ValueError (isinstance), whether its message holds 'text/html content not
\* found in email', and whether the class is built from one message string.
HtmlNotFound == [class |-> "ValueError", value_error |-> TRUE, html_not_found |-> TRUE,
                 one_arg |-> TRUE]
OtherValueError == [class |-> "ValueError", value_error |-> TRUE,
                    html_not_found |-> FALSE, one_arg |-> TRUE]
DecodeError == [class |-> "UnicodeDecodeError", value_error |-> TRUE,
                html_not_found |-> FALSE, one_arg |-> FALSE]
MissingFile == [class |-> "FileNotFoundError", value_error |-> FALSE,
                html_not_found |-> FALSE, one_arg |-> TRUE]
Exceptions == {HtmlNotFound, OtherValueError, DecodeError, MissingFile}

IdleElm ==
    [pc |-> "idle", file_path |-> "none", content_source |-> "default",
     tries |-> 0, first |-> NoException, e |-> NoException]

ElmAtRest ==
    /\ elm = IdleElm
    /\ surfaced = << >>

ApprovalAtRest ==
    /\ docs = << >>
    /\ files = [f \in Filenames |-> NoFile]
    /\ index = << >>
    /\ clock = 0
    /\ req = [h \in Handlers |-> IdleReq]
    /\ out = "none"
    /\ assoc = {}

Init ==
    /\ ApprovalAtRest
    /\ BatchAtRest
    /\ ElmAtRest

\* ------------------------------------------------------------------ upload
\* create_documents: a new record, PENDING, not yet verified.
CreateDocuments(f, u, t) ==
    [filename |-> f, uploaded_by |-> u, doc_type_id |-> t, status |-> PENDING,
     is_enabled |-> TRUE, verified_by |-> NoUser, verified_at |-> 0]

\* Users and filenames are interchangeable: the first upload is taken to be
\* FirstUser's, of FirstFilename.
FirstUpload(u, f) == docs = << >> => u = FirstUser /\ f = FirstFilename

\* upload_documents: the bytes are written to UNCHECKED_DIR/<original filename>,
\* then the record is created.
Upload(u, f, t) ==
    /\ LoopFree
    /\ Len(docs) < MaxDocs
    /\ FirstUpload(u, f)
    /\ files' = [files EXCEPT ![f] = Len(docs) + 1]
    /\ docs' = Append(docs, CreateDocuments(f, u, t))
    /\ UNCHANGED <<index, clock, req, out, assoc, batchVars, elmVars>>

\* ----------------------------------------------------------------- verify
\* The fields a checker action writes: schemas.DocumentCheckerUpdate, applied
\* and committed by crud.documents.update.
CheckerUpdate(doc, st, en, now, u) ==
    [doc EXCEPT !.status = st, !.is_enabled = en,
                !.verified_at = now, !.verified_by = u]

\* (variant) the second test written on the wrong type: a hybrid document
\* falls through to direct ingestion.
RouteHybridFallsThrough(doc) ==
    IF doc.doc_type_id = ScannedDocType THEN "process_ocr" ELSE "ingest"

\* The routine an approval hands the quarantined file to.
Route(doc) ==
    IF doc.doc_type_id = ScannedDocType THEN "process_ocr"
    ELSE IF doc.doc_type_id = HybridDocType THEN "process_both_ocr"
    ELSE "ingest"

\* The coroutine h answers r and is free again.
Respond(h, r) ==
    /\ req' = [req EXCEPT ![h] = IdleReq]
    /\ out' = r

\* crud.documents.get_by_id finds nothing: 400 "Document not found!".
VerifyNotFound(h, id) ==
    /\ LoopFree
    /\ Free(h)
    /\ id \notin DocIds
    /\ Respond(h, "DocumentNotFound")
    /\ UNCHANGED <<docs, files, index, clock, assoc, batchVars, elmVars>>

\* (variant) no final else: the requested status is written like the others.
VerifyInvalidWrites(h, id, target) ==
    /\ LoopFree
    /\ Free(h)
    /\ id \in DocIds
    /\ target \notin {APPROVED, REJECTED}
    /\ docs' = [docs EXCEPT ![id].status = target]
    /\ Respond(h, "ok")
    /\ UNCHANGED <<files, index, clock, assoc, batchVars, elmVars>>

\* The requested status is neither APPROVED nor REJECTED:
\* 400 "Cannot change status to PENDING!".
VerifyInvalid(h, id, target) ==
    /\ LoopFree
    /\ Free(h)
    /\ id \in DocIds
    /\ target \notin {APPROVED, REJECTED}
    /\ Respond(h, "InvalidTransition")
    /\ UNCHANGED <<docs, files, index, clock, assoc, batchVars, elmVars>>

\* Either branch begins by committing the checker's update of the record.
VerifyCommit(h, u, id, target, en) ==
    /\ LoopFree
    /\ Free(h)
    /\ id \in DocIds
    /\ target \in {APPROVED, REJECTED}
    /\ clock < MaxClock
    /\ clock' = clock + 1
    /\ docs' = [docs EXCEPT ![id] = CheckerUpdate(docs[id], target, en, clock + 1, u)]
    /\ req' = [req EXCEPT ![h] =
                  [pc |-> "updated", user |-> u, id |-> id, target |-> target,
                   enabled |-> en, stamp |-> clock + 1, called |-> "none",
                   content |-> NoFile]]
    /\ UNCHANGED <<files, index, out, assoc, batchVars, elmVars>>

\* (variant) the dispatch not restricted to the APPROVED branch.
DispatchReadyAnyTarget(h) == req[h].pc = "updated"

\* APPROVED branch, after the commit: the file at unchecked_path is handed to
\* the routine chosen by doc_type_id, which the handler awaits.  The routine
\* opens the file; a missing file makes it raise.
DispatchReady(h) == req[h].pc = "updated" /\ req[h].target = APPROVED

VerifyDispatch(h) ==
    /\ DispatchReady(h)
    /\ LET doc == docs[req[h].id]
           path == doc.filename
       IN req' = [req EXCEPT ![h].pc = "ingesting",
                             ![h].called = Route(doc),
                             ![h].content = files[path]]
    /\ UNCHANGED <<docs, files, index, clock, out, assoc, batchVars, elmVars>>

\* (variant) the REJECTED branch without its os.remove.
VerifyRemoveKeepsFile(h) ==
    /\ req[h].pc = "updated"
    /\ req[h].target = REJECTED
    /\ Respond(h, "ok")
    /\ UNCHANGED <<docs, files, index, clock, assoc, batchVars, elmVars>>

\* REJECTED branch, after the commit: os.remove(unchecked_path); a missing
\* file raises FileNotFoundError, which the handler turns into a 500.
RemoveReady(h) == req[h].pc = "updated" /\ req[h].target = REJECTED

VerifyRemove(h) ==
    /\ RemoveReady(h)
    /\ LET path == docs[req[h].id].filename
       IN IF files[path] = NoFile
          THEN /\ Respond(h, "InternalServerError")
               /\ UNCHANGED files
          ELSE /\ Respond(h, "ok")
               /\ files' = [files EXCEPT ![path] = NoFile]
    /\ UNCHANGED <<docs, index, clock, assoc, batchVars, elmVars>>

\* ------------------------------------------------------- ingestion facade
\* Ingest(path): load, chunk, embed, append to the index and persist.  One
\* VectorRecord stands for the chunks of one ingested file.
VectorRecord(path, bytes) == [source |-> path, content |-> bytes]

IngestSucceed(h) ==
    /\ LoopFree
    /\ req[h].pc = "ingesting"
    /\ req[h].content # NoFile
    /\ index' = Append(index, VectorRecord(docs[req[h].id].filename, req[h].content))
    /\ Respond(h, "ok")
    /\ UNCHANGED <<docs, files, clock, assoc, batchVars, elmVars>>

\* (variant) the except clause undoing the approval before it answers.
IngestFailRollsBack(h) ==
    /\ LoopFree
    /\ req[h].pc = "ingesting"
    /\ docs' = [docs EXCEPT ![req[h].id].status = PENDING,
                            ![req[h].id].verified_by = NoUser]
    /\ Respond(h, "InternalServerError")
    /\ UNCHANGED <<files, index, clock, assoc, batchVars, elmVars>>

\* UnsupportedFormat, LoadError, EmbeddingError or PersistError: the routine
\* raises; verify_documents re-raises an HTTPException and turns anything
\* else into a 500.  Nothing else is done.
IngestFail(h) ==
    /\ LoopFree
    /\ req[h].pc = "ingesting"
    /\ Respond(h, "InternalServerError")
    /\ UNCHANGED <<docs, files, index, clock, assoc, batchVars, elmVars>>

\* ------------------------------------------------------- enable / disable
\* crud.documents.get_by_filename: the first record with that filename, 0 if none.
GetByFilename(f) ==
    IF \E d \in DocIds : docs[d].filename = f
    THEN CHOOSE d \in DocIds :
             /\ docs[d].filename = f
             /\ \A e \in DocIds : docs[e].filename = f => d <= e
    ELSE 0

\* (variant) the update applied with the schema's other fields at their defaults.
UpdateDocumentResetsStatus(f, en) ==
    /\ LoopFree
    /\ GetByFilename(f) # 0
    /\ docs' = [docs EXCEPT ![GetByFilename(f)].is_enabled = en,
                            ![GetByFilename(f)].status = PENDING]
    /\ UNCHANGED <<files, index, clock, req, out, assoc, batchVars, elmVars>>

\* update_document: schemas.DocumentEnable carries filename and is_enabled.
\* An unknown filename raises inside the try and ends as a 500 that changes
\* nothing (out records the answers of verify requests only).
UpdateDocument(f, en) ==
    /\ LoopFree
    /\ GetByFilename(f) # 0
    /\ docs' = [docs EXCEPT ![GetByFilename(f)].is_enabled = en]
    /\ UNCHANGED <<files, index, clock, req, out, assoc, batchVars, elmVars>>

\* update_department: one association row per requested department is added
\* for the record get_by_filename returns.  An unknown filename makes
\* document.departments raise, which ends as a 500 that changes nothing.
UpdateDepartment(f, deps) ==
    /\ LoopFree
    /\ GetByFilename(f) # 0
    /\ assoc' = assoc \cup {<<GetByFilename(f), dep>> : dep \in deps}
    /\ UNCHANGED <<docs, files, index, clock, req, out, batchVars, elmVars>>

\* list_files, list_files_by_department: read the records, change nothing.
ListFiles ==
    /\ LoopFree
    /\ UNCHANGED <<approvalVars, batchVars, elmVars>>

\* ------------------------------------------------------------------ crash
\* The server process dies: every request in flight is lost, the stores stay.
Crash ==
    /\ \E h \in Handlers : req[h].pc # "idle"
    /\ req' = [h \in Handlers |-> IdleReq]
    /\ out' = "none"
    /\ UNCHANGED <<docs, files, index, clock, assoc, batchVars, elmVars>>

\* ------------------------------------------------- ingest.py: the batch run
Range(s) == {s[i] : i \in 1..Len(s)}
Occurrences(s, x) == Cardinality({i \in 1..Len(s) : s[i] = x})

EndsWith(s, e) ==
    /\ Len(e) <= Len(s)
    /\ SubSeq(s, Len(s) - Len(e) + 1, Len(s)) = e

\* (variant) a pattern "*<ext>*": the extension anywhere in the name.
MatchesAnywhere(f, ext) ==
    \E i \in 1..Len(f) : i + Len(ext) - 1 <= Len(f) /\ SubSeq(f, i, i + Len(ext) - 1) = ext

\* The glob pattern "**/*<ext>": the name ends with the extension.
Matches(f, ext) == EndsWith(f, ext)

\* glob.glob(os.path.join(source_dir, f"**/*{ext}"), recursive=True)
Glob(dir, ext) == {f \in dir : Matches(f, ext)}

RECURSIVE ListOf(_)
\* The files of one glob call as a list (each once, in directory order).
ListOf(S) ==
    IF S = {} THEN << >>
    ELSE LET f == CHOOSE x \in S : TRUE IN <<f>> \o ListOf(S \ {f})

RECURSIVE AllFiles(_, _)
\* all_files after the loop over the first n keys of LOADER_MAPPING.
AllFiles(dir, n) ==
    IF n = 0 THEN << >>
    ELSE AllFiles(dir, n - 1) \o ListOf(Glob(dir, LOADER_MAPPING[n]))

\* filtered_files
FilteredFiles(dir, ignored) ==
    SelectSeq(AllFiles(dir, Len(LOADER_MAPPING)), LAMBDA f : f \notin ignored)

\* file_path.rsplit(".", 1)[-1] with a leading "."
ExtOf(f) ==
    LET dots == {i \in 1..Len(f) : f[i] = "."}
        last == IF dots = {} THEN 0 ELSE CHOOSE i \in dots : \A j \in dots : j <= i
    IN  <<".">> \o SubSeq(f, last + 1, Len(f))

Registered(f) == \E n \in 1..Len(LOADER_MAPPING) : LOADER_MAPPING[n] = ExtOf(f)

\* load_single_document raises: the loader fails, or the extension is unknown.
LoadRaises(f) == f \in malformed \/ ~Registered(f)

\* text_splitter.split_documents: the chunks of a document carry its source
\* (one chunk per document here).
SplitDocuments(documents) ==
    [i \in 1..Len(documents) |-> VectorRecord(documents[i], 1)]

does_vectorstore_exist(dir) ==
    /\ dir.index
    /\ dir.collections /\ dir.embeddings
    /\ dir.artifacts > IndexFilesThreshold

BatchStopped == batch.pc \in {"idle", "complete", "exited", "aborted"}

\* A file is put into the source directory between two runs.
AddSourceFile(f) ==
    /\ BatchStopped
    /\ f \notin source_directory
    /\ source_directory' = source_directory \cup {f}
    /\ UNCHANGED <<malformed, persist_directory, batch, appends, approvalVars, elmVars>>

\* main up to the pool: the branch on does_vectorstore_exist; on the append
\* path Chroma(...) opens the persisted collection and its sources are the
\* ignored files; load_documents lists the files to load.
BatchStart ==
    /\ BatchStopped
    /\ batch.run < MaxRuns
    /\ LET exists == does_vectorstore_exist(persist_directory)
           db == IF exists THEN persist_directory.records ELSE << >>
           ignored == {db[i].source : i \in 1..Len(db)}
           filtered == FilteredFiles(source_directory, ignored)
       IN  batch' = [pc |-> "loading", run |-> batch.run + 1,
                     path |-> IF exists THEN "append" ELSE "create",
                     db |-> db, ignored |-> ignored, filtered |-> filtered,
                     pending |-> 1..Len(filtered), results |-> << >>,
                     texts |-> << >>]
    /\ UNCHANGED <<source_directory, malformed, persist_directory, appends,
                   approvalVars, elmVars>>

\* imap_unordered yields the result of a pending task, here one for file f, in
\* the order of completion; an exception raised in the worker is raised in the
\* loop, which has no handler: it leaves load_documents, process_documents and
\* main.
LoadOne(f) ==
    /\ batch.pc = "loading"
    /\ \E i \in batch.pending :
           /\ batch.filtered[i] = f
           /\ IF LoadRaises(f)
              THEN batch' = [batch EXCEPT !.pc = "aborted", !.pending = {},
                                          !.results = << >>]
              ELSE batch' = [batch EXCEPT !.pending = @ \ {i},
                                          !.results = Append(@, f)]
    /\ UNCHANGED <<source_directory, malformed, persist_directory, appends,
                   approvalVars, elmVars>>

\* process_documents after load_documents returned: exit(0) when nothing was
\* loaded, the chunks otherwise.
ProcessDocuments ==
    /\ batch.pc = "loading"
    /\ batch.pending = {}
    /\ IF batch.results = << >>
       THEN batch' = [batch EXCEPT !.pc = "exited"]
       ELSE batch' = [batch EXCEPT !.pc = "split",
                                   !.texts = SplitDocuments(batch.results)]
    /\ UNCHANGED <<source_directory, malformed, persist_directory, appends,
                   approvalVars, elmVars>>

\* db.add_documents(texts) on the collection opened at the start.
AddDocuments ==
    /\ batch.pc = "split"
    /\ batch.path = "append"
    /\ batch' = [batch EXCEPT !.pc = "added", !.db = @ \o batch.texts]
    /\ UNCHANGED <<source_directory, malformed, persist_directory, appends,
                   approvalVars, elmVars>>

\* Chroma.from_documents(texts, ..., persist_directory=...): a collection of
\* the chunks; whether it also holds what the directory already stored is the
\* library's choice, and both outcomes are kept.
FromDocuments ==
    /\ batch.pc = "split"
    /\ batch.path = "create"
    /\ \E found \in {<< >>, persist_directory.records} :
           batch' = [batch EXCEPT !.pc = "added", !.db = found \o batch.texts]
    /\ UNCHANGED <<source_directory, malformed, persist_directory, appends,
                   approvalVars, elmVars>>

\* (variant) a persist that returns without writing.
PersistWritesNothing ==
    /\ batch.pc = "added"
    /\ batch' = [batch EXCEPT !.pc = "persisted"]
    /\ UNCHANGED <<source_directory, malformed, persist_directory, appends,
                   approvalVars, elmVars>>

\* db.persist(): the collection in memory replaces the stored one; the number
\* of index files it leaves is the library's.
Persist ==
    /\ batch.pc = "added"
    /\ \E n \in 0..MaxArtifacts :
           persist_directory' =
               [index |-> TRUE, collections |-> TRUE, embeddings |-> TRUE,
                artifacts |-> n, records |-> batch.db]
    /\ batch' = [batch EXCEPT !.pc = "persisted"]
    /\ UNCHANGED <<source_directory, malformed, appends, approvalVars, elmVars>>

\* print("Ingestion complete! ...")
Complete ==
    /\ batch.pc = "persisted"
    /\ batch' = [batch EXCEPT !.pc = "complete"]
    /\ UNCHANGED <<source_directory, malformed, persist_directory, appends,
                   approvalVars, elmVars>>

\* An approval's ingestion appends the uploaded document to the same persisted
\* vectorstore and persists it, as one write of the server process.
ApprovalAppend ==
    /\ appends < MaxAppends
    /\ appends' = appends + 1
    /\ \E n \in 0..MaxArtifacts :
           persist_directory' =
               [index |-> TRUE, collections |-> TRUE, embeddings |-> TRUE,
                artifacts |-> n,
                records |-> Append(persist_directory.records,
                                   VectorRecord(UploadedFile, 1))]
    /\ UNCHANGED <<source_directory, malformed, batch, approvalVars, elmVars>>

\* ------------------------------------------------------ MyElmLoader.load
ElmStopped == elm.pc \in {"idle", "returned", "raised"}

\* load_single_document builds a loader for the file and calls load().
ElmLoad(f) ==
    /\ ElmStopped
    /\ Len(surfaced) < MaxLoads
    /\ elm' = [IdleElm EXCEPT !.pc = "first", !.file_path = f]
    /\ UNCHANGED <<surfaced, approvalVars, batchVars>>

\* What the caller gets when load returns the document.
Returned(f) == [class |-> "none", path |-> f]

\* raise type(e)(f"{self.file_path}: {e}") from e: the class of e called with
\* one string; a class that takes other arguments raises TypeError there, and
\* that is the exception which leaves load.
Reraise(e, f) ==
    IF e.one_arg THEN [class |-> e.class, path |-> f]
    ELSE [class |-> "TypeError", path |-> "none"]

\* The first UnstructuredEmailLoader.load(self) and the inner except clause.
ElmFirst(o) ==
    /\ elm.pc = "first"
    /\ elm' = [elm EXCEPT
                 !.tries = 1, !.first = o, !.e = o,
                 !.content_source =
                     IF o.value_error /\ o.html_not_found THEN "text/plain" ELSE @,
                 !.pc = IF o = NoException THEN "returning"
                        ELSE IF o.value_error /\ o.html_not_found THEN "retry"
                        ELSE "raising"]
    /\ UNCHANGED <<surfaced, approvalVars, batchVars>>

\* The second UnstructuredEmailLoader.load(self), with content_source text/plain.
ElmRetry(o) ==
    /\ elm.pc = "retry"
    /\ elm' = [elm EXCEPT !.tries = 2, !.e = o,
                          !.pc = IF o = NoException THEN "returning" ELSE "raising"]
    /\ UNCHANGED <<surfaced, approvalVars, batchVars>>

\* return doc
ElmReturn ==
    /\ elm.pc = "returning"
    /\ elm' = [elm EXCEPT !.pc = "returned"]
    /\ surfaced' = Append(surfaced, Returned(elm.file_path))
    /\ UNCHANGED <<approvalVars, batchVars>>

\* The outer except clause.
ElmRaise ==
    /\ elm.pc = "raising"
    /\ elm' = [elm EXCEPT !.pc = "raised"]
    /\ surfaced' = Append(surfaced, Reraise(elm.e, elm.file_path))
    /\ UNCHANGED <<approvalVars, batchVars>>

Next ==
    \/ \E u \in Users, f \in Filenames, t \in DocTypes : Upload(u, f, t)
    \/ \E h \in Handlers, id \in 1..MaxDocs : VerifyNotFound(h, id)
    \/ \E h \in Handlers, id \in 1..MaxDocs, target \in MakerCheckerStatus :
           VerifyInvalid(h, id, target)
    \/ \E h \in Handlers, u \in Users, id \in 1..MaxDocs,
          target \in MakerCheckerStatus, en \in BOOLEAN :
           VerifyCommit(h, u, id, target, en)
    \/ \E h \in Handlers :
           \/ VerifyDispatch(h)
           \/ VerifyRemove(h)
           \/ IngestSucceed(h)
           \/ IngestFail(h)
    \/ \E f \in Filenames, en \in BOOLEAN : UpdateDocument(f, en)
    \/ \E f \in Filenames, deps \in SUBSET Departments : UpdateDepartment(f, deps)
    \/ ListFiles
    \/ Crash

vars == <<approvalVars, batchVars, elmVars>>

Spec == Init /\ [][Next]_vars

InitBatch ==
    /\ ApprovalAtRest
    /\ ElmAtRest
    /\ source_directory \in SUBSET SourceFiles
    /\ malformed \in {m \in SUBSET SourceFiles : Cardinality(m) <= 1}
    /\ persist_directory \in FoundDirectories
    /\ batch = IdleBatch
    /\ appends = 0

NextBatch ==
    \/ \E f \in SourceFiles : AddSourceFile(f)
    \/ BatchStart
    \/ \E f \in SourceFiles : LoadOne(f)
    \/ ProcessDocuments
    \/ AddDocuments
    \/ FromDocuments
    \/ Persist
    \/ Complete
    \/ ApprovalAppend

SpecBatch == InitBatch /\ [][NextBatch]_vars

InitElm ==
    /\ ApprovalAtRest
    /\ BatchAtRest
    /\ ElmAtRest

NextElm ==
    \/ \E f \in EmlFiles : ElmLoad(f)
    \/ \E o \in Exceptions \cup {NoException} : ElmFirst(o)
    \/ \E o \in Exceptions \cup {NoException} : ElmRetry(o)
    \/ ElmReturn
    \/ ElmRaise

SpecElm == InitElm /\ [][NextElm]_vars

\* ================================================================= claims
Quiescent == \A h \in Handlers : req[h].pc = "idle"

\* The record of h's document holds exactly what h's checker update wrote.
RecordShows(h) ==
    LET doc == docs[req[h].id]
    IN /\ doc.status = req[h].target
       /\ doc.is_enabled = req[h].enabled
       /\ doc.verified_by = req[h].user
       /\ doc.verified_at = req[h].stamp

\* The index holds a VectorRecord whose source is document d's file.
HasRecord(d) == \E i \in 1..Len(index) : index[i].source = docs[d].filename

\* Steps of the handler h, read off a pair of states.
Answered(h) == req[h].pc # "idle" /\ req'[h].pc = "idle" /\ out' # "none"
Invoked(h) == req[h].called = "none" /\ req'[h].called # "none"
RemoveAttempted(h) == req[h].pc = "updated" /\ req[h].target = REJECTED /\ Answered(h)
IngestFailed(h) == req[h].pc = "ingesting" /\ Answered(h) /\ index' = index

\* C1: a record's status changes only from PENDING, except for a re-approval
\* while the quarantined file still exists (stated for a request that arrives
\* while no other request is in flight).
C1_StatusChangesOnlyFromPending ==
    [][Quiescent =>
          \A d \in DocIds :
              docs'[d].status # docs[d].status =>
                  \/ docs[d].status = PENDING
                  \/ docs'[d].status = APPROVED /\ files[docs[d].filename] # NoFile]_vars

\* C2: once every request has been answered, and the last one successfully, a
\* document has a VectorRecord in the index iff it is APPROVED and enabled.
C2_IndexedIffApprovedAndEnabled ==
    (Quiescent /\ out = "ok") =>
        \A d \in DocIds :
            HasRecord(d) <=> (docs[d].status = APPROVED /\ docs[d].is_enabled)

C5_ApproveWithoutArtifactRefused ==
    [][\A h \in Handlers, d \in DocIds :
          (/\ req[h].pc = "idle"
           /\ req'[h].pc # "idle"
           /\ req'[h].id = d
           /\ req'[h].target = APPROVED
           /\ files[docs[d].filename] = NoFile) => FALSE]_vars

\* C6: a verify request whose target is neither APPROVED nor REJECTED is
\* answered InvalidTransition and changes neither the records, the quarantine
\* nor the index; no handler ever works for such a request, and no record
\* returns to PENDING.
C6_InvalidTargetNoEffect ==
    [][/\ (out' = "InvalidTransition" /\ out' # out) =>
              UNCHANGED <<docs, files, index, clock>>
       /\ \A h \in Handlers :
              req'[h].pc # "idle" => req'[h].target \in {APPROVED, REJECTED}
       /\ \A d \in DocIds :
              docs[d].status # PENDING => docs'[d].status # PENDING]_vars

C6_Witness ==
    /\ out = "InvalidTransition"
    /\ \E d \in DocIds : docs[d].status = REJECTED
    /\ \E d \in DocIds : docs[d].status = PENDING

\* C7: the verifier of a record is never its uploader.
C7_VerifierIsNotUploader ==
    \A d \in DocIds : docs[d].verified_by # docs[d].uploaded_by

\* C8: approving a document again adds no duplicate: the index never holds two
\* VectorRecords for the file of one document.
C8_ReapprovalAddsNoDuplicate ==
    \A d \in DocIds :
        (\A e \in DocIds : docs[e].filename = docs[d].filename => e = d) =>
            Cardinality({i \in 1..Len(index) : index[i].source = docs[d].filename}) <= 1

\* C9: when the ingestion an approval started fails, the caller gets an error
\* and no record is changed: a record still carrying that approval's
\* verification time keeps status APPROVED and that approval's verifier.
C9_IngestFailureKeepsApproval ==
    [][\A h \in Handlers :
          IngestFailed(h) =>
              /\ out' = "InternalServerError"
              /\ docs' = docs
              /\ docs[req[h].id].verified_at = req[h].stamp =>
                     /\ docs'[req[h].id].status = APPROVED
                     /\ docs'[req[h].id].verified_by = req[h].user
                     /\ docs'[req[h].id].verified_at = req[h].stamp]_vars

C9_Witness ==
    /\ Quiescent
    /\ out = "InternalServerError"
    /\ index = << >>
    /\ \E d \in DocIds : /\ docs[d].status = APPROVED
                         /\ docs[d].verified_by # NoUser
                         /\ files[docs[d].filename] # NoFile

\* C10: a verify request with target REJECTED that is answered successfully
\* leaves the record REJECTED and the quarantined file deleted, and invokes no
\* ingestion routine and adds nothing to the index.
C10_RejectDeletesAndNeverIngests ==
    [][\A h \in Handlers :
          /\ (RemoveAttempted(h) /\ out' = "ok") =>
                 /\ docs'[req[h].id].status = REJECTED
                 /\ files'[docs[req[h].id].filename] = NoFile
                 /\ index' = index
          /\ req[h].target = REJECTED =>
                 req[h].called = "none" /\ req'[h].called = "none"]_vars

C10_Witness ==
    /\ Quiescent
    /\ out = "ok"
    /\ index = << >>
    /\ \E d \in DocIds : docs[d].status = REJECTED /\ files[docs[d].filename] = NoFile

\* A verify request for document d commits its update in this step.
Commits(h, d) == req[h].pc = "idle" /\ req'[h].pc = "updated" /\ req'[h].id = d

\* C17 (as claimed): status, is_enabled, verifier and verification time of a
\* record are changed by the verify action only.
C17_OnlyVerifyChangesRecord ==
    [][\A d \in DocIds :
          docs'[d] # docs[d] => \E h \in Handlers : Commits(h, d)]_vars

\* C17 (amended): status, verifier and verification time are changed by the
\* verify action only; is_enabled is changed by the verify action and by
\* update_document, for the record its filename resolves to, which changes
\* nothing else; update_department and an upload change no existing record.
C17_OnlyVerifyAndEnableChangeRecord ==
    [][/\ \A d \in DocIds :
              (\/ docs'[d].status # docs[d].status
               \/ docs'[d].verified_by # docs[d].verified_by
               \/ docs'[d].verified_at # docs[d].verified_at) =>
                  \E h \in Handlers : Commits(h, d)
       /\ \A d \in DocIds :
              docs'[d].is_enabled # docs[d].is_enabled =>
                  \/ \E h \in Handlers : Commits(h, d)
                  \/ /\ d = GetByFilename(docs[d].filename)
                     /\ docs' = [docs EXCEPT ![d].is_enabled = ~docs[d].is_enabled]
                     /\ UNCHANGED <<files, index, clock, req, out, assoc>>
       /\ (assoc' # assoc \/ Len(docs') # Len(docs)) =>
              \A d \in DocIds : docs'[d] = docs[d]]_vars

C17_Witness ==
    /\ assoc # {}
    /\ Len(docs) = MaxDocs
    /\ \E d \in DocIds : docs[d].status = PENDING /\ ~docs[d].is_enabled
    /\ \E d \in DocIds : docs[d].status = APPROVED /\ docs[d].is_enabled

\* C18: an approval hands the file to exactly one routine, chosen by the
\* document's type: process_ocr for a scanned document, process_both_ocr for
\* a hybrid one, ingest for any other; the routine of a request never changes,
\* and an approval answered successfully has run one.
C18_OneRouteByDocType ==
    [][\A h \in Handlers :
          /\ Invoked(h) =>
                 LET t == docs[req[h].id].doc_type_id
                 IN /\ t = ScannedDocType => req'[h].called = "process_ocr"
                    /\ t = HybridDocType => req'[h].called = "process_both_ocr"
                    /\ t \notin {ScannedDocType, HybridDocType} =>
                           req'[h].called = "ingest"
          /\ (req[h].called # "none" /\ req'[h].pc # "idle") =>
                 req'[h].called = req[h].called
          /\ (Answered(h) /\ req[h].target = APPROVED /\ out' = "ok") =>
                 req[h].called \in {"process_ocr", "process_both_ocr", "ingest"}]_vars

C18_Witness ==
    \E h \in Handlers : /\ req[h].pc = "ingesting"
                        /\ req[h].called = "process_both_ocr"
                        /\ docs[req[h].id].doc_type_id = HybridDocType

\* C20: every PENDING record has its quarantined file present, holding the
\* bytes uploaded with that record.
C20_PendingFileIntact ==
    \A d \in DocIds : docs[d].status = PENDING => files[docs[d].filename] = d

\* ----------------------------------------------------------- batch claims
Stored(dir) == {dir.records[i].source : i \in 1..Len(dir.records)}
Starts == batch'.run # batch.run
Persists == batch.pc = "added" /\ batch'.pc = "persisted"
Reports == batch.pc # "complete" /\ batch'.pc = "complete"

\* C11: in every batch run the files whose source path the persisted index
\* already holds are excluded from loading, so that a second run over the same
\* files loads and adds nothing, whatever number of index files the first run
\* left.
C11_IndexedFilesNotLoaded ==
    batch.pc = "loading" =>
        \A i \in 1..Len(batch.filtered) :
            batch.filtered[i] \notin Stored(persist_directory)

\* C12: a file that fails to load does not abort the batch: load_documents
\* is never left by the failure of one file while other files of the batch
\* could be loaded.
C12_FailureDoesNotAbort ==
    ~ /\ batch.pc = "aborted"
      /\ \E i \in 1..Len(batch.filtered) : ~LoadRaises(batch.filtered[i])

\* C13: an append of the batch run to a vectorstore that an approval appends
\* to as well loses nothing: when the run persists, the stored record count
\* grows by exactly the records the run added.
C13_AppendsAddUp ==
    [][Persists /\ batch.path = "append" =>
           Len(persist_directory'.records)
               = Len(persist_directory.records) + Len(batch.texts)]_vars

\* C14: a run takes the vectorstore as present exactly when the index
\* directory and both parquet files exist and the index holds at least 3
\* files; with exactly 3 it appends.
C14_PresentFromThreeArtifacts ==
    [][Starts =>
           (batch'.path = "append" <=>
                /\ persist_directory.index
                /\ persist_directory.collections
                /\ persist_directory.embeddings
                /\ persist_directory.artifacts >= IndexFilesThreshold)]_vars

\* C15: what load_documents returns holds every file of the source directory
\* that has a registered extension and is not ignored exactly once, and
\* nothing else, in whatever order the workers complete.
C15_EachLoadedFileOnce ==
    batch.pc \in {"split", "added", "persisted"} =>
        /\ Range(batch.results) \subseteq source_directory \ batch.ignored
        /\ \A f \in source_directory :
               Occurrences(batch.results, f)
                   = IF Registered(f) /\ f \notin batch.ignored THEN 1 ELSE 0

\* An incremental run returned: a stored file was ignored, and the .docx file,
\* whose name holds ".doc" as well, was loaded.
C15_Witness ==
    /\ batch.pc = "split"
    /\ batch.ignored \cap source_directory # {}
    /\ DocxFile \in Range(batch.results)
    /\ Cardinality(batch.pending) = 0

\* C16: a batch run reports completion only from the position after
\* db.persist(), with every record it added in the persisted vectorstore, on
\* the create path and on the append path.
C16_CompleteOnlyAfterPersist ==
    [][Reports =>
           /\ batch.pc = "persisted"
           /\ batch.path \in {"create", "append"}
           /\ batch.texts # << >>
           /\ \A i \in 1..Len(batch.texts) :
                  \E j \in 1..Len(persist_directory.records) :
                      persist_directory.records[j] = batch.texts[i]]_vars

\* A second run, on the append path, has reported completion.
C16_Witness ==
    /\ batch.pc = "complete"
    /\ batch.run = MaxRuns
    /\ batch.path = "append"
    /\ batch.texts # << >>

\* -------------------------------------------------------------- elm claim
\* C19: load retries at most once, and only after a first failure for missing
\* HTML; a failure that leaves load is of the class of the failure that
\* caused it and carries the file path.
C19_RetryOnceAndSameKind ==
    /\ elm.tries <= 2
    /\ elm.tries = 2 => elm.first = HtmlNotFound
    /\ elm.pc = "retry" => elm.content_source = "text/plain"
    /\ elm.pc = "raised" =>
           surfaced[Len(surfaced)] = [class |-> elm.e.class, path |-> elm.file_path]

====
